---- MODULE Spec2Model ----
(***************************************************************************)
(* A model of fortiosapi.FortiOSAPI (src/fortiosapi/fortiosapi.py): the    *)
(* session (login, tokenlogin, logout, CSRF header), the URL builders, the *)
(* response normalizer, the CRUD verbs, set (update, then create) and      *)
(* setoverlayconfig.  The appliance is the environment: every response it  *)
(* gives is an input of the action that receives it.                       *)
(***************************************************************************)
EXTENDS Integers, Sequences, FiniteSets, TLC

(***************************************************************************)
(* Python values.  A string is a sequence of tokens (runs of characters),  *)
(* so that slicing, prefix tests and concatenation are computed.           *)
(***************************************************************************)
None == [ty |-> "none"]
PyInt(n) == [ty |-> "int", v |-> n]
PyStr(s) == [ty |-> "str", v |-> s]
PyBool(b) == [ty |-> "bool", v |-> b]
PyDict(f) == [ty |-> "dict", v |-> f]
PyList(l) == [ty |-> "list", v |-> l]
PyExc(e) == [ty |-> "exc", v |-> e]

\* An HTTP response object of the requests library: status code, body and
\* the cookie its Set-Cookie header carries (None: no cookie).
Response(code, body, cookie) ==
    [ty |-> "response", code |-> code, body |-> body, cookie |-> cookie]

\* Bodies: text (the logincheck answer), a JSON document, or bytes that do
\* not decode as JSON.
Text(s) == [ty |-> "text", v |-> s]
Json(v) == [ty |-> "json", v |-> v]
BadBody == [ty |-> "bad"]

\* The outcome of a call: a returned value or a raised exception.
Ret(v) == [k |-> "return", v |-> v]
Raise(e) == [k |-> "raise", v |-> PyExc(e)]
IsRet(o) == o.k = "return"
IsRaise(o, e) == o.k = "raise" /\ o.v = PyExc(e)

\* Python truthiness ("if mkey:", "if not keyname:", "if vdom:").
Truthy(v) ==
    CASE v.ty = "none" -> FALSE
      [] v.ty = "int" -> v.v # 0
      [] v.ty = "str" -> Len(v.v) # 0
      [] v.ty = "bool" -> v.v
      [] v.ty = "dict" -> DOMAIN v.v # {}
      [] v.ty = "list" -> Len(v.v) # 0
      [] OTHER -> TRUE

\* d[key] on a Python value: KeyError on a mapping without the key,
\* TypeError on a value that is not subscriptable by a string.
GetItem(d, key) ==
    IF d.ty = "dict"
    THEN IF key \in DOMAIN d.v THEN Ret(d.v[key]) ELSE Raise("KeyError")
    ELSE Raise("TypeError")

\* d[key] = val on a mapping.
SetItem(d, key, val) ==
    PyDict([x \in DOMAIN d.v \cup {key} |-> IF x = key THEN val ELSE d.v[x]])

\* s[1:-1] on a sequence.
Slice1(s) == SubSeq(s, 2, Len(s) - 1)

(***************************************************************************)
(* The state of a FortiOSAPI object and of its requests session.           *)
(***************************************************************************)
VARIABLES
    host,           \* self.host
    useHttps,       \* self._https
    logged,         \* self._logged
    fortiversion,   \* self._fortiversion
    license,        \* self._license
    url_prefix,     \* self.url_prefix
    timeout,        \* self.timeout
    cookies,        \* self._session.cookies, in iteration order
    headers,        \* self._session.headers (the ones the class sets)
    sent,           \* the request/response exchanges of the last call
    ret,            \* the last call: its name, arguments and outcome
    auth,           \* login attempts since construction or the last logout
    csrf0,          \* the CSRF cookie value the server set last, before the last call
    move_parameters, \* the default parameters dictionary of move
    overlay         \* the call of setoverlayconfig in progress, if any

vars == <<host, useHttps, logged, fortiversion, license, url_prefix, timeout,
          cookies, headers, sent, ret, auth, csrf0, move_parameters, overlay>>

session == <<host, useHttps, logged, fortiversion, license, url_prefix,
             timeout, cookies, headers>>

\* The object as one value, for the methods that read or change it.
Self ==
    [host |-> host, useHttps |-> useHttps, logged |-> logged,
     fortiversion |-> fortiversion, license |-> license,
     url_prefix |-> url_prefix, timeout |-> timeout,
     cookies |-> cookies, headers |-> headers]

\* What a method call yields: the object afterwards, the outcome, and the
\* request/response exchanges it made, in order.
Done(self, out, log) == [self |-> self, out |-> out, log |-> log]

Valid == PyStr(<<"Valid">>)
Invalid == PyStr(<<"Invalid">>)
Global == PyStr(<<"global">>)
VersionUnset == PyStr(<<"Version is set when logged">>)
DefaultTimeout == 120
LoginTimeout == 12

\* __init__
Construct ==
    [host |-> None, useHttps |-> TRUE, logged |-> FALSE,
     fortiversion |-> VersionUnset, license |-> None, url_prefix |-> None,
     timeout |-> DefaultTimeout, cookies |-> <<>>, headers |-> <<>>]

(***************************************************************************)
(* The requests session: headers sent with each request, cookies stored    *)
(* from each response.                                                     *)
(***************************************************************************)
Request(self, method, url, params, data) ==
    [method |-> method, url |-> url, params |-> params, data |-> data,
     headers |-> self.headers]

Exchange(req, res) == [req |-> req, res |-> res]

\* The cookie jar after a response: a cookie of a name already held
\* replaces it in place, a new one is appended.
StoreCookie(jar, c) ==
    IF c = None THEN jar
    ELSE IF \E i \in 1..Len(jar) : jar[i].name = c.name
         THEN [i \in 1..Len(jar) |-> IF jar[i].name = c.name THEN c ELSE jar[i]]
         ELSE Append(jar, c)

Receive(self, res) == [self EXCEPT !.cookies = StoreCookie(self.cookies, res.cookie)]

\* headers.update({name: value})
HeadersUpdate(h, name, value) ==
    [x \in DOMAIN h \cup {name} |-> IF x = name THEN value ELSE h[x]]

\* cookie.name == "ccsrftoken" or cookie.name.startswith("ccsrftoken_")
IsCsrfName(n) ==
    \/ n = <<"ccsrftoken">>
    \/ Len(n) >= 2 /\ n[1] = "ccsrftoken" /\ n[2] = "_"

RECURSIVE UpdateFrom(_, _, _)
UpdateFrom(jar, i, h) ==
    IF i > Len(jar) THEN h
    ELSE UpdateFrom(jar, i + 1,
            IF IsCsrfName(jar[i].name)
            THEN HeadersUpdate(h, "X-CSRFTOKEN", Slice1(jar[i].value))
            ELSE h)

update_cookie(self) ==
    [self EXCEPT !.headers = UpdateFrom(self.cookies, 1, self.headers)]

\* A variant that looks at the license before the authenticated flag.
CheckLicenseFirst(self) ==
    IF self.license = Invalid THEN Raise("InvalidLicense")
    ELSE IF ~self.logged THEN Raise("NotLogged")
    ELSE Ret(None)

check_session(self) ==
    IF ~self.logged THEN Raise("NotLogged")
    ELSE IF self.license = Invalid THEN Raise("InvalidLicense")
    ELSE Ret(None)

\* https(status)
https(self, status) ==
    IF status = PyStr(<<"on">>) THEN [self EXCEPT !.useHttps = TRUE]
    ELSE IF status = PyStr(<<"off">>) THEN [self EXCEPT !.useHttps = FALSE]
    ELSE self

(***************************************************************************)
(* URL builders.                                                           *)
(***************************************************************************)
\* a + b for strings; None + str is a TypeError.
Concat(a, b) ==
    IF a.ty = "str" THEN Ret(PyStr(a.v \o b)) ELSE Raise("TypeError")

\* str(v)
Str(v) ==
    CASE v.ty = "str" -> v.v
      [] v.ty = "int" -> <<ToString(v.v)>>
      [] v.ty = "none" -> <<"None">>
      [] v.ty = "bool" -> IF v.v THEN <<"True">> ELSE <<"False">>
      [] OTHER -> <<"<object>">>

\* urllib.parse.quote(s, safe=...): reserved characters that are not in
\* safe are percent-escaped.
QuoteToken(t, safe) ==
    IF t \in safe THEN t
    ELSE CASE t = "/" -> "%2F"
           [] t = " " -> "%20"
           [] t = "?" -> "%3F"
           [] OTHER -> t

quote(s, safe) == [i \in 1..Len(s) |-> QuoteToken(s[i], safe)]

url_postfix(root, path, name, vdom, mkey) ==
    LET base == <<root>> \o path \o <<"/">> \o name
        item == IF Truthy(mkey) THEN base \o <<"/">> \o quote(Str(mkey), {}) ELSE base
    IN  IF Truthy(vdom)
        THEN IF vdom = Global THEN item \o <<"?global=1">>
             ELSE item \o <<"?vdom=">> \o vdom.v
        ELSE item

\* The URL once check_session has let the call through.
UrlAfter(checked, prefix, postfix) ==
    IF ~IsRet(checked) THEN checked ELSE Concat(prefix, postfix)

cmdb_url(self, path, name, vdom, mkey) ==
    UrlAfter(check_session(self), self.url_prefix,
             url_postfix("/api/v2/cmdb/", path, name, vdom, mkey))

mon_url(self, path, name, vdom, mkey) ==
    UrlAfter(check_session(self), self.url_prefix,
             url_postfix("/api/v2/monitor/", path, name, vdom, mkey))

(***************************************************************************)
(* Response normalizer.                                                    *)
(***************************************************************************)
\* json.loads(...)[0]
Index0(doc) ==
    CASE doc.ty = "list" -> IF Len(doc.v) >= 1 THEN Ret(doc.v[1]) ELSE Raise("IndexError")
      [] doc.ty = "dict" -> Raise("KeyError")
      [] OTHER -> Raise("TypeError")

\* A variant that unwraps the first element and does not tag it.
TagGlobalUntagged(res, first) ==
    IF IsRet(first) /\ first.v.ty = "dict" THEN first ELSE Ret(res)

\* resp = json.loads(...)[0]; resp["vdom"] = "global"
TagGlobal(res, first) ==
    IF IsRet(first) /\ first.v.ty = "dict"
    THEN Ret(SetItem(first.v, "vdom", Global))
    ELSE Ret(res)

\* The bare except returns res itself whenever decoding (or, for global,
\* unwrapping and tagging) raises; a res that is no response object has no
\* content and comes back as it is.
formatresponse(self, res, vdom) ==
    IF self.license = Invalid THEN Raise("Exception")
    ELSE IF res.ty # "response" THEN Ret(res)
    ELSE IF res.body.ty # "json" THEN Ret(res)
    ELSE IF vdom = Global THEN TagGlobal(res, Index0(res.body.v))
    ELSE Ret(res.body.v)

\* json.dumps(data)
Dumps(data) == Json(data)

\* One request on the session, at the URL a URL builder gave (or its
\* failure), and the normalized response.
Fetch(self, url, method, params, data, res, vdom) ==
    IF ~IsRet(url) THEN Done(self, url, <<>>)
    ELSE Done(Receive(self, res), formatresponse(self, res, vdom),
              <<Exchange(Request(self, method, url.v, params, data), res)>>)

\* The same, the response handed back as the transport gave it.
FetchRaw(self, url, method, params, data, res) ==
    IF ~IsRet(url) THEN Done(self, url, <<>>)
    ELSE Done(Receive(self, res), Ret(res),
              <<Exchange(Request(self, method, url.v, params, data), res)>>)

\* d, made after k: the exchanges of both.
After(k, d) == Done(d.self, d.out, k.log \o d.log)

(***************************************************************************)
(* Read operations and the schema resolver.                                *)
(***************************************************************************)
get(self, path, name, vdom, mkey, parameters, res) ==
    Fetch(self, cmdb_url(self, path, name, vdom, mkey), "GET", parameters, None, res, vdom)

monitor(self, path, name, vdom, mkey, parameters, res) ==
    Fetch(self, mon_url(self, path, name, vdom, mkey), "GET", parameters, None, res, vdom)

download(self, path, name, vdom, mkey, parameters, res) ==
    FetchRaw(self, mon_url(self, path, name, vdom, mkey), "GET", parameters, None, res)

upload(self, path, name, vdom, mkey, parameters, data, res) ==
    FetchRaw(self, mon_url(self, path, name, vdom, mkey), "POST", parameters, data, res)

execute(self, path, name, data, vdom, mkey, parameters, res) ==
    Fetch(self, mon_url(self, path, name, vdom, mkey), "POST", parameters, Dumps(data),
          res, vdom)

\* ...[0]["results"]
ResultsOf(first) == IF IsRet(first) THEN GetItem(first.v, "results") ELSE first

\* What schema returns from the response it got.
SchemaOf(res, vdom) ==
    IF res.body.ty # "json" THEN Raise("ValueError")
    ELSE IF res.code = 200
         THEN IF vdom = Global THEN ResultsOf(Index0(res.body.v))
              ELSE GetItem(res.body.v, "results")
         ELSE Ret(res.body.v)

SchemaFetch(self, url, vdom, res) ==
    IF ~IsRet(url) THEN Done(self, url, <<>>)
    ELSE Done(Receive(self, res), SchemaOf(res, vdom),
              <<Exchange(Request(self, "GET",
                    PyStr(url.v.v \o (IF vdom = None THEN <<"?action=schema">>
                                      ELSE <<"&action=schema">>)), None, None), res)>>)

schema(self, path, name, vdom, res) ==
    SchemaFetch(self, cmdb_url(self, path, name, vdom, None), vdom, res)

\* keyname = schema["mkey"], False on KeyError
MkeyName(s, keyname) ==
    IF ~IsRet(s.out) THEN s
    ELSE IF IsRaise(keyname, "KeyError") THEN Done(s.self, Ret(PyBool(FALSE)), s.log)
    ELSE Done(s.self, keyname, s.log)

MkeyNameOf(s) == MkeyName(s, GetItem(s.out.v, "mkey"))

get_mkeyname(self, path, name, vdom, res) ==
    MkeyNameOf(schema(self, path, name, vdom, res))

\* The key a value is when it indexes a mapping.
KeyOf(v) ==
    CASE v.ty = "str" -> IF Len(v.v) = 1 THEN v.v[1] ELSE "<str>"
      [] v.ty = "bool" -> IF v.v THEN "<True>" ELSE "<False>"
      [] v.ty = "int" -> ToString(v.v)
      [] v.ty = "none" -> "<None>"
      [] OTHER -> "<object>"

\* A variant that lets the KeyError of data[keyname] through.
MkeyValueRaises(k, mkey) == Done(k.self, mkey, k.log)

\* mkey = data[keyname], None on KeyError
MkeyValue(k, mkey) ==
    IF IsRaise(mkey, "KeyError") THEN Done(k.self, Ret(None), k.log)
    ELSE Done(k.self, mkey, k.log)

MkeyIn(k, data) ==
    IF ~IsRet(k.out) THEN k
    ELSE IF ~Truthy(k.out.v) THEN Done(k.self, Ret(None), k.log)
    ELSE MkeyValue(k, GetItem(data, KeyOf(k.out.v)))

get_mkey(self, path, name, data, vdom, res) ==
    MkeyIn(get_mkeyname(self, path, name, vdom, res), data)

VersionAfter(checked, version) == IF ~IsRet(checked) THEN checked ELSE Ret(version)

get_version(self) == Done(self, VersionAfter(check_session(self), self.fortiversion), <<>>)

(***************************************************************************)
(* Write operations.  A call that changes the caller's payload yields the  *)
(* payload afterwards as well (data).                                      *)
(***************************************************************************)
DoneData(d, data) == [self |-> d.self, out |-> d.out, log |-> d.log, data |-> data]

\* A variant that keeps the value the payload already has.
ForceKeyIfAbsent(data, mkeyname, mkey) ==
    IF data.ty = "dict"
    THEN Ret(IF KeyOf(mkeyname) \in DOMAIN data.v THEN data
             ELSE SetItem(data, KeyOf(mkeyname), mkey))
    ELSE Raise("TypeError")

\* data[mkeyname] = mkey
ForceKey(data, mkeyname, mkey) ==
    IF data.ty = "dict" THEN Ret(SetItem(data, KeyOf(mkeyname), mkey))
    ELSE Raise("TypeError")

\* The POST itself, to the URL built with mkey=None.
PostTo(k, path, name, data, vdom, parameters, res) ==
    DoneData(After(k, Fetch(k.self, cmdb_url(k.self, path, name, vdom, None), "POST",
                            parameters, Dumps(data), res, vdom)),
             data)

PostForced(k, forced, path, name, data, vdom, parameters, res) ==
    IF ~IsRet(k.out) THEN DoneData(k, data)
    ELSE IF ~IsRet(forced) THEN DoneData(Done(k.self, forced, k.log), data)
    ELSE PostTo(k, path, name, forced.v, vdom, parameters, res)

PostKeyed(k, path, name, data, vdom, mkey, parameters, res) ==
    PostForced(k, ForceKey(data, k.out.v, mkey), path, name, data, vdom, parameters, res)

post(self, path, name, data, vdom, mkey, parameters, sres, res) ==
    IF Truthy(mkey)
    THEN PostKeyed(get_mkeyname(self, path, name, vdom, sres), path, name, data, vdom,
                   mkey, parameters, res)
    ELSE PostTo(Done(self, Ret(None), <<>>), path, name, data, vdom, parameters, res)

\* if not mkey: mkey = self.get_mkey(path, name, data, vdom=vdom)
Resolve(self, path, name, data, vdom, mkey, sres) ==
    IF Truthy(mkey) THEN Done(self, Ret(mkey), <<>>)
    ELSE get_mkey(self, path, name, data, vdom, sres)

\* put and delete once the identity is resolved: one request to the URL
\* built with it.
Keyed(k, method, path, name, vdom, parameters, data, res) ==
    IF ~IsRet(k.out) THEN k
    ELSE After(k, Fetch(k.self, cmdb_url(k.self, path, name, vdom, k.out.v), method,
                        parameters, Dumps(data), res, vdom))

put(self, path, name, vdom, mkey, parameters, data, sres, res) ==
    Keyed(Resolve(self, path, name, data, vdom, mkey, sres), "PUT", path, name, vdom,
          parameters, data, res)

delete(self, path, name, vdom, mkey, parameters, data, sres, res) ==
    Keyed(Resolve(self, path, name, data, vdom, mkey, sres), "DELETE", path, name, vdom,
          parameters, data, res)

\* parameters["action"] = "move"; parameters[where] = str(reference_key)
MoveParameters(parameters, where, reference_key) ==
    SetItem(SetItem(parameters, "action", PyStr(<<"move">>)),
            KeyOf(where), PyStr(Str(reference_key)))

MoveTo(self, url, p1, parameters, res, vdom) ==
    IF ~IsRet(url) THEN DoneData(Done(self, url, <<>>), parameters)
    ELSE DoneData(Fetch(self, url, "PUT", p1, None, res, vdom), p1)

\* move: parameters is the dictionary the call writes into (the default
\* argument is one dictionary, kept by the function between calls).
move(self, path, name, vdom, mkey, where, reference_key, parameters, res) ==
    MoveTo(self, cmdb_url(self, path, name, vdom, mkey),
           MoveParameters(parameters, where, reference_key), parameters, res, vdom)

(***************************************************************************)
(* set: update, then create when the update's http_status asks for it.     *)
(* calls lists the verbs set invoked with their arguments, in order.       *)
(***************************************************************************)
\* A variant of the statuses that does not create after a 500.
FallbackWithout500 == {PyInt(404), PyInt(405)}

\* The http_status values after which set calls post.
FallbackStatus == {PyInt(404), PyInt(405), PyInt(500)}

Call(verb, path, name, data, mkey, out) ==
    [verb |-> verb, path |-> path, name |-> name, data |-> data, mkey |-> mkey,
     out |-> out]

SetDone(d, data, calls) ==
    [self |-> d.self, out |-> d.out, log |-> d.log, data |-> data, calls |-> calls]

\* return self.formatresponse(res, vdom=vdom), res being what post returned
SetCreated(u, c, update, path, name, data, vdom, mkey1) ==
    SetDone(Done(c.self,
                 IF IsRet(c.out) THEN formatresponse(c.self, c.out.v, vdom) ELSE c.out,
                 u.log \o c.log),
            c.data, <<update, Call("create", path, name, data, mkey1, c.out)>>)

SetStatus(u, status, update, path, name, data, vdom, mkey1, sres2, cres) ==
    IF ~IsRet(status) THEN SetDone(Done(u.self, status, u.log), data, <<update>>)
    ELSE IF status.v \in FallbackStatus
         THEN SetCreated(u, post(u.self, path, name, data, vdom, mkey1, None, sres2, cres),
                         update, path, name, data, vdom, mkey1)
         ELSE SetDone(u, data, <<update>>)

\* After the PUT (u); no request went out when cmdb_url raised (n0: the
\* exchanges made before it).
SetUpdated(u, n0, path, name, data, vdom, mkey1, sres2, cres) ==
    IF Len(u.log) = n0 THEN SetDone(u, data, <<>>)
    ELSE IF ~IsRet(u.out)
         THEN SetDone(u, data, <<Call("update", path, name, data, mkey1, u.out)>>)
    ELSE SetStatus(u, GetItem(u.out.v, "http_status"),
                   Call("update", path, name, data, mkey1, u.out),
                   path, name, data, vdom, mkey1, sres2, cres)

SetKeyed(k, path, name, data, vdom, parameters, pres, sres2, cres) ==
    IF ~IsRet(k.out) THEN SetDone(k, data, <<>>)
    ELSE SetUpdated(Keyed(k, "PUT", path, name, vdom, parameters, data, pres),
                    Len(k.log),
                    path, name, data, vdom, k.out.v, sres2, cres)

set(self, path, name, data, mkey, vdom, parameters, sres, pres, sres2, cres) ==
    SetKeyed(Resolve(self, path, name, data, vdom, mkey, sres), path, name, data, vdom,
             parameters, pres, sres2, cres)

(***************************************************************************)
(* setoverlayconfig.  A tree is a mapping in the order of its keys: a      *)
(* sequence of entries, of names, each a sequence of paths, each a         *)
(* sequence of fields.  A field whose node is a mapping is a table row.    *)
(***************************************************************************)
Entry(k, v) == [k |-> k, v |-> v]

\* isinstance(node, dict)
IsRow(node) == node.ty = "dict"

\* The loop over the fields of one path: a row is deleted from yamltree;
\* any other field deletes the path from yamltreel3, which raises KeyError
\* when the path is there no more.  kept: the fields of yamltree[name][path]
\* so far; present: yamltreel3[name] still has the path.
RECURSIVE SplitFields(_, _, _)
SplitFields(fields, kept, present) ==
    IF fields = <<>> THEN [kept |-> kept, present |-> present, ok |-> TRUE]
    ELSE IF IsRow(Head(fields).v) THEN SplitFields(Tail(fields), kept, present)
    ELSE IF ~present THEN [kept |-> kept \o fields, present |-> FALSE, ok |-> FALSE]
    ELSE SplitFields(Tail(fields), Append(kept, Head(fields)), FALSE)

Split(yamltree, yamltreel3, ok) ==
    [yamltree |-> yamltree, yamltreel3 |-> yamltreel3, ok |-> ok]

\* The loop over the paths of one name.
RECURSIVE SplitPaths(_, _, _)
SplitPath(paths, done, l3, f) ==
    IF ~f.ok
    THEN Split(done \o <<Entry(Head(paths).k, f.kept)>> \o Tail(paths), l3, FALSE)
    ELSE SplitPaths(Tail(paths), Append(done, Entry(Head(paths).k, f.kept)),
                    IF f.present THEN Append(l3, Head(paths)) ELSE l3)

SplitPaths(paths, done, l3) ==
    IF paths = <<>> THEN Split(done, l3, TRUE)
    ELSE SplitPath(paths, done, l3, SplitFields(Head(paths).v, <<>>, TRUE))

\* The loop over the names.
RECURSIVE SplitNames(_, _, _)
SplitName(names, done, l3, p) ==
    IF ~p.ok
    THEN Split(done \o <<Entry(Head(names).k, p.yamltree)>> \o Tail(names), l3, FALSE)
    ELSE SplitNames(Tail(names), Append(done, Entry(Head(names).k, p.yamltree)),
                    Append(l3, Entry(Head(names).k, p.yamltreel3)))

SplitNames(names, done, l3) ==
    IF names = <<>> THEN Split(done, l3, TRUE)
    ELSE SplitName(names, done, l3, SplitPaths(Head(names).v, <<>>, <<>>))

\* The first loop of setoverlayconfig: yamltree (the caller's tree) and
\* yamltreel3 (its deep copy) afterwards, ok unless KeyError was raised.
Partition(yamltree) == SplitNames(yamltree, <<>>, <<>>)

\* yamltree[name][path] as the payload of a set.
ToDict(fields) ==
    PyDict([x \in {fields[i].k : i \in DOMAIN fields} |->
                fields[CHOOSE i \in DOMAIN fields : fields[i].k = x].v])

\* What is left of the second loop: the names and paths still to visit,
\* up to the first path that is not empty ("if yamltree[name][path]:").
RECURSIVE SkipScalar(_)
SkipScalar(names) ==
    IF names = <<>> THEN <<>>
    ELSE IF Head(names).v = <<>> THEN SkipScalar(Tail(names))
    ELSE IF Head(Head(names).v).v = <<>>
         THEN SkipScalar(<<Entry(Head(names).k, Tail(Head(names).v))>> \o Tail(names))
    ELSE names

\* What is left of the third loop, up to the first row.
RECURSIVE SkipTable(_)
SkipTable(names) ==
    IF names = <<>> THEN <<>>
    ELSE IF Head(names).v = <<>> THEN SkipTable(Tail(names))
    ELSE IF Head(Head(names).v).v = <<>>
         THEN SkipTable(<<Entry(Head(names).k, Tail(Head(names).v))>> \o Tail(names))
    ELSE names

\* The loops left after the first path, or the first row, of what is left.
NextPath(names) == <<Entry(Head(names).k, Tail(Head(names).v))>> \o Tail(names)
NextRow(names) ==
    <<Entry(Head(names).k,
            <<Entry(Head(Head(names).v).k, Tail(Head(Head(names).v).v))>>
                \o Tail(Head(names).v))>> \o Tail(names)

\* No call of setoverlayconfig in progress.
Idle ==
    [pc |-> "idle", vdom |-> None, yamltree |-> <<>>, yamltreel3 |-> <<>>,
     scalar |-> <<>>, table |-> <<>>, restree |-> FALSE]

\* A variant that starts on the rows while paths are left to visit.
PassTableFirst(o) == IF o.table # <<>> THEN "table" ELSE "scalar"

\* The loop the call is in: the second as long as it has a path to visit.
Pass(o) == IF o.scalar # <<>> THEN "scalar" ELSE "table"

(***************************************************************************)
(* Session manager.                                                        *)
(***************************************************************************)
Scheme(self) == IF ~self.useHttps THEN "http://" ELSE "https://"

\* self.host, self.url_prefix and self.timeout as a login sets them.
Connect(self, h, t) ==
    [self EXCEPT !.host = h, !.timeout = t,
                 !.url_prefix = PyStr(<<Scheme(self)>> \o h.v)]

\* res.content.decode("ascii")[0]
FirstChar(body) ==
    CASE body.ty = "text" ->
            IF Len(body.v) >= 1 THEN Ret(PyStr(<<body.v[1]>>)) ELSE Raise("IndexError")
      [] body.ty = "json" -> Ret(PyStr(IF body.v.ty = "list" THEN <<"[">> ELSE <<"{">>))
      [] OTHER -> Raise("UnicodeDecodeError")

\* resp_lic.json() for a resp_lic that is no dict.
JsonOf(v) ==
    IF v.ty = "response"
    THEN IF v.body.ty = "json" THEN Ret(v.body.v) ELSE Raise("ValueError")
    ELSE Raise("AttributeError")

\* A variant of the end of login that returns without recording the version.
LoginVersionNotRecorded(self, version, status) ==
    IF IsRet(version) THEN Done(self, Ret(PyBool(TRUE)), <<>>)
    ELSE IF ~IsRaise(version, "KeyError") THEN Done(self, version, <<>>)
    ELSE IF ~IsRet(status) THEN Done(self, status, <<>>)
    ELSE IF status.v = PyStr(<<"success">>)
         THEN Done([self EXCEPT !.logged = TRUE], Ret(PyBool(TRUE)), <<>>)
         ELSE Done([self EXCEPT !.logged = FALSE], Raise("NotLogged"), <<>>)

\* The try/except at the end of login.
LoginVersion(self, version, status) ==
    IF IsRet(version)
    THEN Done([self EXCEPT !.fortiversion = version.v], Ret(PyBool(TRUE)), <<>>)
    ELSE IF ~IsRaise(version, "KeyError") THEN Done(self, version, <<>>)
    ELSE IF ~IsRet(status) THEN Done(self, status, <<>>)
    ELSE IF status.v = PyStr(<<"success">>)
         THEN Done([self EXCEPT !.logged = TRUE], Ret(PyBool(TRUE)), <<>>)
         ELSE Done([self EXCEPT !.logged = FALSE], Raise("NotLogged"), <<>>)

LoginDict(m, resp_lic) ==
    IF ~IsRet(resp_lic) THEN Done(m.self, resp_lic, m.log)
    ELSE After(m, LoginVersion(m.self, GetItem(resp_lic.v, "version"),
                               GetItem(resp_lic.v, "status")))

\* After the license probe (m).
LoginProbed(m) ==
    IF ~IsRet(m.out) THEN m
    ELSE LoginDict(m, IF m.out.v.ty = "dict" THEN m.out ELSE JsonOf(m.out.v))

\* After the answer to /logincheck (p: the session and the exchange).
LoginMarked(p, first, vdom, probe) ==
    IF ~IsRet(first) THEN Done(p.self, first, p.log)
    ELSE IF first.v # PyStr(<<"1">>)
         THEN Done([p.self EXCEPT !.logged = FALSE], Raise("NotLogged"), p.log)
    ELSE After(p, LoginProbed(
            monitor([update_cookie(p.self) EXCEPT !.logged = TRUE],
                    <<"license">>, <<"status">>, None, None,
                    PyStr(<<"{ vdom = ">> \o vdom.v \o <<" }">>), probe)))

LoginData(username, password) ==
    PyStr(<<"username=">> \o quote(username.v, {"/"}) \o <<"&secretkey=">>
            \o quote(password.v, {"/"}) \o <<"&ajax=1">>)

LoginSent(self1, username, password, vdom, res, probe) ==
    LoginMarked(Done(Receive(self1, res), Ret(None),
                     <<Exchange(Request(self1, "POST",
                            PyStr(self1.url_prefix.v \o <<"/logincheck">>), None,
                            LoginData(username, password)), res)>>),
                FirstChar(res.body), vdom, probe)

login(self, h, username, password, t, vdom, res, probe) ==
    LoginSent(Connect(self, h, t), username, password, vdom, res, probe)

\* The try/except at the end of tokenlogin.
TokenVersion(g, version) ==
    IF ~IsRet(g.out) THEN g
    ELSE IF IsRaise(version, "TypeError") THEN Done(g.self, Raise("NotLogged"), g.log)
    ELSE IF ~IsRet(version) THEN Done(g.self, version, g.log)
    ELSE Done([g.self EXCEPT !.fortiversion = version.v], Ret(PyBool(TRUE)), g.log)

TokenProbed(g) == TokenVersion(g, GetItem(g.out.v, "version"))

tokenlogin(self, h, apitoken, t, vdom, probe) ==
    TokenProbed(get([Connect(self, h, t) EXCEPT !.logged = TRUE,
                        !.headers = HeadersUpdate(self.headers, "Authorization",
                                                  <<"Bearer ">> \o apitoken.v)],
                    <<"system">>, <<"status">>, vdom, None, None, probe))

\* A variant of logout that leaves the authenticated flag as it is.
LogoutStaysLogged(self, url, res) ==
    IF ~IsRet(url) THEN Done(self, url, <<>>)
    ELSE Done([Receive(self, res) EXCEPT !.cookies = <<>>, !.license = Valid],
              Ret(None), <<Exchange(Request(self, "POST", url.v, None, None), res)>>)

LogoutSent(self, url, res) ==
    IF ~IsRet(url) THEN Done(self, url, <<>>)
    ELSE Done([Receive(self, res) EXCEPT !.cookies = <<>>, !.logged = FALSE,
                                          !.license = Valid],
              Ret(None), <<Exchange(Request(self, "POST", url.v, None, None), res)>>)

logout(self, res) == LogoutSent(self, Concat(self.url_prefix, <<"/logout">>), res)

(***************************************************************************)
(* license: the license status, asked again after a FortiGuard update when *)
(* the first answer's status is not success.                               *)
(***************************************************************************)
\* if postresp["status"] == "success": resp2 = self.monitor(...); return resp2
\* (the method ends without a return otherwise, which yields None)
LicenseRetried(e, status, vdom, res2) ==
    IF ~IsRet(e.out) THEN e
    ELSE IF ~IsRet(status) THEN Done(e.self, status, e.log)
    ELSE IF status.v = PyStr(<<"success">>)
         THEN After(e, monitor(e.self, <<"license">>, <<"status">>, vdom, None, None, res2))
    ELSE Done(e.self, Ret(None), e.log)

\* postresp = self.execute("system", "fortiguard/update", None, vdom=vdom)
LicenseUpdated(e, vdom, res2) ==
    LicenseRetried(e, GetItem(e.out.v, "status"), vdom, res2)

\* A variant that records the license as Invalid when the status asked
\* first is not success.
LicenseCheckedRecords(m, status, vdom, eres, res2) ==
    IF ~IsRet(m.out) THEN m
    ELSE IF ~IsRet(status) THEN Done(m.self, status, m.log)
    ELSE IF status.v = PyStr(<<"success">>) THEN m
    ELSE Done([m.self EXCEPT !.license = Invalid], Ret(None), m.log)

\* if resp["status"] == "success": return resp
LicenseChecked(m, status, vdom, eres, res2) ==
    IF ~IsRet(m.out) THEN m
    ELSE IF ~IsRet(status) THEN Done(m.self, status, m.log)
    ELSE IF status.v = PyStr(<<"success">>) THEN m
    ELSE LicenseUpdated(After(m, execute(m.self, <<"system">>, <<"fortiguard/update">>,
                                         None, vdom, None, None, eres)),
                        vdom, res2)

LicenseAsked(m, vdom, eres, res2) ==
    LicenseChecked(m, GetItem(m.out.v, "status"), vdom, eres, res2)

\* license(vdom): the method (license alone names the attribute _license)
license_status(self, vdom, res, eres, res2) ==
    LicenseAsked(monitor(self, <<"license">>, <<"status">>, vdom, None, None, res),
                 vdom, eres, res2)

(***************************************************************************)
(* Inputs: arguments of the calls and answers of the appliance.            *)
(***************************************************************************)
Fgt == PyStr(<<"fgt">>)
Root == PyStr(<<"root">>)
Admin == PyStr(<<"admin">>)
Secret == PyStr(<<"pw">>)
Token == PyStr(<<"tok">>)
V6 == PyStr(<<"v6.0.0">>)
Success == PyStr(<<"success">>)
Error == PyStr(<<"error">>)

Cookie(name, value) == [name |-> name, value |-> value]
Quoted(t) == <<"\"", t, "\"">>
CsrfA == Cookie(<<"ccsrftoken">>, Quoted("A"))
CsrfB == Cookie(<<"ccsrftoken">>, Quoted("B"))
CsrfPort == Cookie(<<"ccsrftoken", "_", "8443">>, Quoted("C"))

OkDoc == PyDict([http_status |-> PyInt(200), status |-> Success])
ErrDoc(code) == PyDict([http_status |-> PyInt(code), status |-> Error])
\* The appliance answers a global request with a list of per-vdom results.
Wrap(vdom, doc) == IF vdom = Global THEN PyList(<<doc>>) ELSE doc

\* Answers to /logincheck: the success marker (with the cookie the answer
\* sets), a refusal, an empty body.
LoginOk(c) == Response(200, Text(<<"1">>), c)
LoginRefused == Response(200, Text(<<"0">>), None)
LoginEmpty == Response(200, Text(<<>>), None)

\* Answers to the probe that follows a login: success or error, with or
\* without the version, a document with neither, an undecodable body.
ProbeDoc(code, status) == PyDict([http_status |-> PyInt(code), status |-> status])
ProbeOk == SetItem(ProbeDoc(200, Success), "version", V6)

ProbeAnswers(vdom) ==
    {Response(200, Json(Wrap(vdom, ProbeOk)), None),
     Response(200, Json(Wrap(vdom, ProbeDoc(200, Success))), None),
     Response(403, Json(Wrap(vdom, SetItem(ProbeDoc(403, Error), "version", V6))), None),
     Response(403, Json(Wrap(vdom, ProbeDoc(403, Error))), None),
     Response(200, Json(PyDict(<<>>)), None),
     Response(200, BadBody, None)}

\* Answers to a request of an operation: success, an error, an undecodable
\* body; each may set a cookie.
Answer(vdom, c) == Response(200, Json(Wrap(vdom, OkDoc)), c)
Failed(vdom, code) == Response(code, Json(Wrap(vdom, ErrDoc(code))), None)
NotFound(vdom) == Failed(vdom, 404)
\* A document without http_status.
Bare == Response(200, Json(PyDict([status |-> Success])), None)
Undecodable == Response(200, BadBody, None)
Answers(vdom) == {Answer(vdom, None), NotFound(vdom), Undecodable}

\* Answers to a schema request: the schema of a table keyed by name, the
\* schema of an object with no mkey, an error body, an undecodable body.
SchemaDoc(keyed) ==
    PyDict([http_status |-> PyInt(200), status |-> Success,
            results |-> IF keyed THEN PyDict([mkey |-> PyStr(<<"name">>)])
                        ELSE PyDict([category |-> PyStr(<<"complex">>)])])

SchemaKeyed(vdom) == Response(200, Json(Wrap(vdom, SchemaDoc(TRUE))), None)
SchemaPlain(vdom) == Response(200, Json(Wrap(vdom, SchemaDoc(FALSE))), None)
SchemaMissing(vdom) == Response(404, Json(Wrap(vdom, ErrDoc(404))), None)
SchemaBad == Response(200, BadBody, None)

Firewall == <<"firewall">>
Address == <<"address">>
Addr1 == PyStr(<<"addr1">>)
Subnet == PyStr(<<"10.0.0.0/24">>)
\* Payloads: one that carries its identity (name), one that does not.
Named == PyDict([name |-> Addr1, subnet |-> Subnet])
Unnamed == PyDict([subnet |-> Subnet])

(***************************************************************************)
(* Calls.  Each action is one call of a method by the user of the object:  *)
(* the object, the exchanges and the outcome of the call are recorded.     *)
(***************************************************************************)
Args(path, name, data, mkey, vdom) ==
    [path |-> path, name |-> name, data |-> data, mkey |-> mkey, vdom |-> vdom]
NoArgs == Args(<<>>, <<>>, None, None, None)

\* The value of the CSRF cookie set last by the responses of log, or prior
\* when none of them sets one.
RECURSIVE LastCsrf(_, _)
LastCsrf(prior, log) ==
    IF log = <<>> THEN prior
    ELSE LastCsrf(IF log[1].res.cookie # None /\ IsCsrfName(log[1].res.cookie.name)
                  THEN PyStr(log[1].res.cookie.value) ELSE prior,
                  Tail(log))

Becomes(self) ==
    /\ host' = self.host
    /\ useHttps' = self.useHttps
    /\ logged' = self.logged
    /\ fortiversion' = self.fortiversion
    /\ license' = self.license
    /\ url_prefix' = self.url_prefix
    /\ timeout' = self.timeout
    /\ cookies' = self.cookies
    /\ headers' = self.headers

Record(op, args, d, calls, data) ==
    /\ Becomes(d.self)
    /\ sent' = d.log
    /\ ret' = [op |-> op, args |-> args, out |-> d.out, calls |-> calls, data |-> data]
    /\ csrf0' = IF ret.op = "logout" /\ IsRet(ret.out) THEN None
                ELSE LastCsrf(csrf0, sent)
    /\ overlay' = Idle

\* A call of an operation other than login, tokenlogin, logout and move.
Called(op, args, d) ==
    /\ Record(op, args, d, <<>>, None)
    /\ UNCHANGED <<auth, move_parameters>>

\* The login attempts since construction or the last logout, after one more.
Attempt(out) ==
    IF IsRet(out) THEN "ok"
    ELSE IF auth \in {"ok", "okfailed"} THEN "okfailed" ELSE "failed"

Init ==
    /\ host = Construct.host
    /\ useHttps = Construct.useHttps
    /\ logged = Construct.logged
    /\ fortiversion = Construct.fortiversion
    /\ license = Construct.license
    /\ url_prefix = Construct.url_prefix
    /\ timeout = Construct.timeout
    /\ cookies = Construct.cookies
    /\ headers = Construct.headers
    /\ sent = <<>>
    /\ ret = [op |-> "__init__", args |-> NoArgs, out |-> Ret(None), calls |-> <<>>,
              data |-> None]
    /\ auth = "none"
    /\ csrf0 = None
    /\ move_parameters = PyDict(<<>>)
    /\ overlay = Idle

\* The methods are synchronous: the user calls one when no setoverlayconfig
\* is running.
NotRunning == overlay.pc = "idle"

\* https called with 'on', 'off' or another word; the status is kept as the
\* data of the call.
Https ==
    /\ NotRunning
    /\ \E status \in {PyStr(<<"on">>), PyStr(<<"off">>), PyStr(<<"auto">>)} :
           Called("https", Args(<<>>, <<>>, status, None, None),
                  Done(https(Self, status), Ret(None), <<>>))

\* An answer the call did not use is the first of its set.
Unused(d, answers, r) ==
    (\A i \in 1..Len(d.log) : d.log[i].res # r) => r = CHOOSE x \in answers : TRUE

LoginCalled(d, probes, probe) ==
    /\ Unused(d, probes, probe)
    /\ Record("login", NoArgs, d, <<>>, None)
    /\ auth' = Attempt(d.out)
    /\ UNCHANGED move_parameters

LoginWith(answers, probes) ==
    \E res \in answers, probe \in probes :
        LoginCalled(login(Self, Fgt, Admin, Secret, LoginTimeout, Global, res, probe),
                    probes, probe)

TokenLoginCalled(d, vdom) ==
    /\ Record("tokenlogin", Args(<<>>, <<>>, None, None, vdom), d, <<>>, None)
    /\ auth' = Attempt(d.out)
    /\ UNCHANGED move_parameters

TokenLoginWith(vdoms) ==
    \E vdom \in vdoms : \E probe \in ProbeAnswers(vdom) :
        TokenLoginCalled(tokenlogin(Self, Fgt, Token, LoginTimeout, vdom, probe), vdom)

LogoutCalled(d) ==
    /\ Record("logout", NoArgs, d, <<>>, None)
    /\ auth' = IF IsRet(d.out) THEN "none" ELSE auth
    /\ UNCHANGED move_parameters

Logout == NotRunning /\ LogoutCalled(logout(Self, Response(200, Text(<<>>), None)))

GetVersion == NotRunning /\ Called("get_version", NoArgs, get_version(Self))

GetWith(vdoms, cookieset) ==
    \E vdom \in vdoms : \E res \in Answers(vdom) \cup {Answer(vdom, c) : c \in cookieset} :
        Called("get", Args(Firewall, Address, None, Addr1, vdom),
               get(Self, Firewall, Address, vdom, Addr1, None, res))

Monitor ==
    /\ NotRunning
    /\ \E res \in Answers(None) :
           Called("monitor", Args(<<"system">>, <<"status">>, None, None, None),
                  monitor(Self, <<"system">>, <<"status">>, None, None, None, res))

Schema ==
    /\ NotRunning
    /\ \E res \in {SchemaKeyed(None), SchemaMissing(None), SchemaBad} :
           Called("schema", Args(Firewall, Address, None, None, None),
                  schema(Self, Firewall, Address, None, res))

Download ==
    /\ NotRunning
    /\ \E res \in {Undecodable} :
           Called("download", Args(<<"system">>, <<"config/backup">>, None, None, None),
                  download(Self, <<"system">>, <<"config/backup">>, None, None, None, res))

Upload ==
    /\ NotRunning
    /\ \E res \in {Answer(None, None)} :
           Called("upload", Args(<<"system">>, <<"config/restore">>, None, None, None),
                  upload(Self, <<"system">>, <<"config/restore">>, None, None, None, None, res))

Execute ==
    /\ NotRunning
    /\ \E res \in Answers(None) :
           Called("execute", Args(<<"system">>, <<"fortiguard/update">>, None, None, None),
                  execute(Self, <<"system">>, <<"fortiguard/update">>, None, None, None, None, res))

\* Answers to license/status: valid, reported invalid, an error, an
\* undecodable body.
LicenseInvalid(vdom) == Response(200, Json(Wrap(vdom, ProbeDoc(200, PyStr(<<"invalid">>)))), None)
LicenseAnswers(vdom) ==
    {Answer(vdom, None), LicenseInvalid(vdom), Failed(vdom, 403), Undecodable}
UpdateNowAnswers(vdom) == {Answer(vdom, None), Failed(vdom, 500)}

LicenseCalled(vdom, d, res, eres, res2) ==
    /\ Unused(d, LicenseAnswers(vdom), res)
    /\ Unused(d, LicenseAnswers(vdom), res2)
    /\ Unused(d, UpdateNowAnswers(vdom), eres)
    /\ Called("license", Args(<<>>, <<>>, None, None, vdom), d)

License ==
    /\ NotRunning
    /\ \E vdom \in {Root, Global} :
           \E res, res2 \in LicenseAnswers(vdom), eres \in UpdateNowAnswers(vdom) :
               LicenseCalled(vdom, license_status(Self, vdom, res, eres, res2), res, eres, res2)

\* A call whose answers are a schema answer and an answer to the request.
CalledWith(op, args, d, schemas, sres, answers, res) ==
    /\ Unused(d, schemas, sres)
    /\ Unused(d, answers, res)
    /\ Called(op, args, d)

PostCalled(args, d, schemas, sres, answers, res) ==
    /\ Unused(d, schemas, sres)
    /\ Unused(d, answers, res)
    /\ Record("post", args, d, <<>>, d.data)
    /\ UNCHANGED <<auth, move_parameters>>

PostWith(datas, mkeys, schemas, answers) ==
    \E data \in datas, mkey \in mkeys, sres \in schemas, res \in answers :
        PostCalled(Args(Firewall, Address, data, mkey, None),
                   post(Self, Firewall, Address, data, None, mkey, None, sres, res),
                   schemas, sres, answers, res)

PutWith(datas, mkeys, schemas, answers) ==
    \E data \in datas, mkey \in mkeys, sres \in schemas, res \in answers :
        CalledWith("put", Args(Firewall, Address, data, mkey, None),
                   put(Self, Firewall, Address, None, mkey, None, data, sres, res),
                   schemas, sres, answers, res)

DeleteWith(datas, mkeys, schemas, answers) ==
    \E data \in datas, mkey \in mkeys, sres \in schemas, res \in answers :
        CalledWith("delete", Args(Firewall, Address, data, mkey, None),
                   delete(Self, Firewall, Address, None, mkey, None, data, sres, res),
                   schemas, sres, answers, res)

MoveCalled(args, d) ==
    /\ Record("move", args, d, <<>>, None)
    /\ move_parameters' = d.data
    /\ UNCHANGED auth

\* move called without a parameters argument: the default dictionary is used
\* and keeps what the call writes into it.
Move ==
    /\ NotRunning
    /\ \E where \in {PyStr(<<"before">>)}, res \in {Answer(None, None)} :
           MoveCalled(Args(<<"firewall">>, <<"policy">>, None, PyInt(2), None),
                      move(Self, <<"firewall">>, <<"policy">>, None, PyInt(2), where, PyInt(1),
                           move_parameters, res))

SetCalled(args, d, schemas, sres, sres2, updates, pres, creates, cres) ==
    /\ Unused(d, schemas, sres) /\ Unused(d, schemas, sres2)
    /\ Unused(d, updates, pres) /\ Unused(d, creates, cres)
    /\ Record("set", args, d, d.calls, d.data)
    /\ UNCHANGED <<auth, move_parameters>>

SetWith(datas, mkeys, vdoms, schemas, updates, creates) ==
    \E data \in datas, mkey \in mkeys, vdom \in vdoms :
      \E sres \in schemas, pres \in updates, sres2 \in schemas, cres \in creates :
        SetCalled(Args(Firewall, Address, data, mkey, vdom),
                  set(Self, Firewall, Address, data, mkey, vdom, None, sres, pres, sres2, cres),
                  schemas, sres, sres2, updates, pres, creates, cres)

\* A set that setoverlayconfig called, from its second loop (scalar) or its
\* third (table), and what it returned.
OverlayCall(pass, path, name, data, mkey, out) ==
    [pass |-> pass, path |-> path, name |-> name, data |-> data, mkey |-> mkey,
     out |-> out]

Tree(t) == [ty |-> "tree", v |-> t]

\* The outcome of a call that has not returned yet.
Pending == [k |-> "pending", v |-> None]

\* setoverlayconfig returns or raises.
Finish(o, self, out, log, calls) ==
    /\ Becomes(self)
    /\ sent' = log
    /\ ret' = [ret EXCEPT !.out = out, !.calls = calls, !.data = Tree(o.yamltree)]
    /\ overlay' = Idle
    /\ UNCHANGED <<csrf0, auth, move_parameters>>

\* The call goes on with what is left of its loops, and returns restree
\* when nothing is.
Continue(o, self, log, calls) ==
    IF o.scalar = <<>> /\ o.table = <<>>
    THEN Finish(o, self, Ret(PyBool(o.restree)), log, calls)
    ELSE /\ Becomes(self)
         /\ sent' = log
         /\ ret' = [ret EXCEPT !.calls = calls, !.data = Tree(o.yamltree)]
         /\ overlay' = o
         /\ UNCHANGED <<csrf0, auth, move_parameters>>

\* A variant whose restree is true only while every set has succeeded.
SteppedAllSucceeded(o, d, status, log, calls, scalar, table, scalar0, table0) ==
    IF ~IsRet(d.out) THEN Finish(o, d.self, d.out, log, calls)
    ELSE IF ~IsRet(status) THEN Finish(o, d.self, status, log, calls)
    ELSE IF status.v = PyStr(<<"success">>)
         THEN Continue([o EXCEPT !.restree = (Len(calls) = 1 \/ o.restree),
                                 !.scalar = scalar, !.table = table],
                       d.self, log, calls)
         ELSE Continue([o EXCEPT !.restree = FALSE, !.scalar = scalar0, !.table = table0],
                       d.self, log, calls)

\* After a set (d): res["status"] == "success" sets restree and goes on
\* with the loop (scalar, table); any other status clears restree and
\* breaks out of the innermost loop (scalar0, table0).
Stepped(o, d, status, log, calls, scalar, table, scalar0, table0) ==
    IF ~IsRet(d.out) THEN Finish(o, d.self, d.out, log, calls)
    ELSE IF ~IsRet(status) THEN Finish(o, d.self, status, log, calls)
    ELSE IF status.v = PyStr(<<"success">>)
         THEN Continue([o EXCEPT !.restree = TRUE, !.scalar = scalar, !.table = table],
                       d.self, log, calls)
         ELSE Continue([o EXCEPT !.restree = FALSE, !.scalar = scalar0, !.table = table0],
                       d.self, log, calls)

\* A variant in which a status other than success ends both loops.
ScalarSetAborts(o, path, name, data, d) ==
    Stepped(o, d, GetItem(d.out.v, "status"), sent \o d.log,
            Append(ret.calls, OverlayCall("scalar", path, name, data, None, d.out)),
            SkipScalar(NextPath(o.scalar)), o.table,
            <<>>, <<>>)

\* res = self.set(name, path, data=yamltree[name][path], vdom=vdom)
ScalarSet(o, path, name, data, d) ==
    Stepped(o, d, GetItem(d.out.v, "status"), sent \o d.log,
            Append(ret.calls, OverlayCall("scalar", path, name, data, None, d.out)),
            SkipScalar(NextPath(o.scalar)), o.table,
            SkipScalar(Tail(o.scalar)), o.table)

\* res = self.set(name, path, mkey=k, data=node, vdom=vdom)
TableSet(o, path, name, data, mkey, d) ==
    Stepped(o, d, GetItem(d.out.v, "status"), sent \o d.log,
            Append(ret.calls, OverlayCall("table", path, name, data, mkey, d.out)),
            o.scalar, SkipTable(NextRow(o.table)),
            o.scalar, SkipTable(NextPath(o.table)))

ScalarStep(o, self, path, name, data, a) ==
    ScalarSet(o, path, name, data,
              set(self, path, name, data, None, o.vdom, None, a.schema, a.update,
                  a.schema, a.create))

TableStep(o, self, path, name, data, mkey, a) ==
    TableSet(o, path, name, data, mkey,
             set(self, path, name, data, mkey, o.vdom, None, a.schema, a.update,
                 a.schema, a.create))

\* The next set of the call in progress, answered by a.
OverlayStep(o, self, a) ==
    IF Pass(o) = "scalar"
    THEN ScalarStep(o, self, <<Head(o.scalar).k>>, <<Head(Head(o.scalar).v).k>>,
                    ToDict(Head(Head(o.scalar).v).v), a)
    ELSE TableStep(o, self, <<Head(o.table).k>>, <<Head(Head(o.table).v).k>>,
                   Head(Head(Head(o.table).v).v).v,
                   PyStr(<<Head(Head(Head(o.table).v).v).k>>), a)

\* A variant whose third loop runs over the tree of the second.
RunningOverOneTree(vdom, p) ==
    [pc |-> "run", vdom |-> vdom, yamltree |-> p.yamltree, yamltreel3 |-> p.yamltree,
     scalar |-> SkipScalar(p.yamltree), table |-> SkipTable(p.yamltree),
     restree |-> FALSE]

\* The loops to run after the first loop (p).
Running(vdom, p) ==
    [pc |-> "run", vdom |-> vdom, yamltree |-> p.yamltree, yamltreel3 |-> p.yamltreel3,
     scalar |-> SkipScalar(p.yamltree), table |-> SkipTable(p.yamltreel3),
     restree |-> FALSE]

\* The call, up to its first set: it raises the KeyError of the first
\* loop, returns when it has no set to make, or goes on.
Started(tree, vdom, p, o) ==
    /\ Becomes(Self)
    /\ sent' = <<>>
    /\ csrf0' = IF ret.op = "logout" /\ IsRet(ret.out) THEN None
                ELSE LastCsrf(csrf0, sent)
    /\ ret' = [op |-> "setoverlayconfig",
               args |-> Args(<<>>, <<>>, Tree(tree), None, vdom),
               out |-> IF ~p.ok THEN Raise("KeyError")
                       ELSE IF o.scalar = <<>> /\ o.table = <<>>
                            THEN Ret(PyBool(o.restree))
                       ELSE Pending,
               calls |-> <<>>, data |-> Tree(p.yamltree)]
    /\ overlay' = IF p.ok /\ ~(o.scalar = <<>> /\ o.table = <<>>) THEN o ELSE Idle
    /\ UNCHANGED <<auth, move_parameters>>

\* Trees: firewall (address, policy) and system (global); a path holds
\* scalar fields, rows, both or nothing.
Hostname == Entry("hostname", PyStr(<<"fw1">>))
NameField == Entry("name", Addr1)
SubnetField == Entry("subnet", Subnet)
Row(k) == Entry(k, PyDict([subnet |-> Subnet]))

AddressFields ==
    {<<NameField>>, <<NameField, SubnetField>>, <<Row("a1")>>, <<Row("a1"), Row("a2")>>,
     <<NameField, Row("a1")>>, <<Row("a1"), NameField, SubnetField>>}
PolicyFields == {<<>>, <<Entry("action", PyStr(<<"accept">>))>>, <<Row("1")>>}
GlobalFields == {<<Hostname>>, <<Row("g1")>>}

\* {"firewall": {"address": {"name": "addr1", "subnet": "10.0.0.0/24"}}}
AddressTree == <<Entry("firewall", <<Entry("address", <<NameField, SubnetField>>)>>)>>
\* {"system": {"global": {"hostname": "fw1"}}}
HostnameTree == <<Entry("system", <<Entry("global", <<Hostname>>)>>)>>

Trees ==
    {<<>>, AddressTree, HostnameTree} \cup
    {<<Entry("firewall", <<Entry("address", a), Entry("policy", p)>>),
       Entry("system", <<Entry("global", g)>>)>> :
        a \in AddressFields, p \in PolicyFields, g \in GlobalFields}

\* How the appliance answers a set: the update succeeds, fails with a
\* status set does not retry, is not decodable, or finds nothing and the
\* create succeeds or is not decodable.
Answered(update, create) ==
    [schema |-> SchemaKeyed(None), update |-> update, create |-> create]
OverlayAnswers ==
    {Answered(Answer(None, None), Answer(None, None)),
     Answered(Failed(None, 424), Answer(None, None)),
     Answered(Undecodable, Answer(None, None)),
     Answered(NotFound(None), Answer(None, None)),
     Answered(NotFound(None), Undecodable)}

SetOverlayConfig ==
    /\ overlay.pc = "idle"
    /\ \E tree \in Trees :
        Started(tree, None, Partition(tree), Running(None, Partition(tree)))

OverlaySet ==
    /\ overlay.pc = "run"
    /\ \E a \in OverlayAnswers : OverlayStep(overlay, Self, a)

(***************************************************************************)
(* Spec: the session and every operation, on an appliance that answers     *)
(* each request in any of the ways above.                                  *)
(***************************************************************************)
Login ==
    /\ NotRunning
    /\ LoginWith({LoginOk(None), LoginOk(CsrfA), LoginRefused, LoginEmpty}, ProbeAnswers(None))
TokenLogin == NotRunning /\ TokenLoginWith({Global, Root})
Get == NotRunning /\ GetWith({None, Global}, {})
Post == NotRunning /\ PostWith({Named}, {None, Addr1}, {SchemaKeyed(None)}, Answers(None))
Put == NotRunning /\ PutWith({Named}, {Addr1}, {SchemaKeyed(None)}, Answers(None))
Delete == NotRunning /\ DeleteWith({Named}, {Addr1}, {SchemaKeyed(None)}, Answers(None))
Set == NotRunning /\ SetWith({Named}, {Addr1}, {None}, {SchemaKeyed(None)}, Answers(None),
                             {Answer(None, None)})

Next ==
    \/ Login \/ TokenLogin \/ Logout \/ GetVersion
    \/ Get \/ Monitor \/ Schema \/ Download \/ Upload \/ Execute
    \/ Post \/ Put \/ Delete \/ Move \/ Set \/ License

Spec == Init /\ [][Next]_vars

(***************************************************************************)
(* SpecCsrf: the session on an appliance that sets and rotates the CSRF    *)
(* cookie.                                                                 *)
(***************************************************************************)
LoginCsrf ==
    /\ NotRunning
    /\ LoginWith({LoginOk(c) : c \in {None, CsrfA, CsrfB, CsrfPort}} \cup {LoginRefused},
                 {Response(200, Json(ProbeOk), None), Response(200, Json(ProbeOk), CsrfB)})
TokenLoginCsrf == NotRunning /\ TokenLoginWith({Root})
GetCsrf == NotRunning /\ GetWith({None}, {CsrfA, CsrfB})

NextCsrf == LoginCsrf \/ TokenLoginCsrf \/ Logout \/ GetCsrf \/ GetVersion

SpecCsrf == Init /\ [][NextCsrf]_vars

(***************************************************************************)
(* SpecSet: set on a logged session, with and without an identity, in the  *)
(* payload or forced, on an appliance that answers the update and the      *)
(* create in any way.                                                      *)
(***************************************************************************)
LoginSet ==
    /\ NotRunning
    /\ LoginWith({LoginOk(None), LoginRefused}, {Response(200, Json(ProbeOk), None)})

UpdateAnswers ==
    {Answer(None, None), Answer(Global, None), NotFound(None), Failed(None, 405),
     Failed(None, 500), Failed(None, 424), Bare, Undecodable}
CreateAnswers == {Answer(None, None), Failed(None, 500), Undecodable}
SchemaAnswers == {SchemaKeyed(None), SchemaKeyed(Global), SchemaPlain(None), SchemaBad}

SetAny ==
    /\ NotRunning
    /\ SetWith({Named, Unnamed}, {None, Addr1}, {None, Global}, SchemaAnswers, UpdateAnswers,
               CreateAnswers)

NextSet == LoginSet \/ Logout \/ SetAny

SpecSet == Init /\ [][NextSet]_vars

(***************************************************************************)
(* SpecKeys: the identity key of an object type (get_mkeyname, get_mkey),  *)
(* create with and without a forced identity, and what get makes of the    *)
(* bodies of each scope.                                                   *)
(***************************************************************************)
Addr2 == PyStr(<<"addr2">>)
\* A payload whose name is not the identity the caller forces.
Conflicting == PyDict([name |-> Addr2, subnet |-> Subnet])

KeySchemas(vdom) ==
    {SchemaKeyed(vdom), SchemaPlain(vdom), SchemaMissing(vdom), SchemaBad}

GetMkeyname ==
    /\ NotRunning
    /\ \E vdom \in {None, Global} : \E sres \in KeySchemas(vdom) :
           Called("get_mkeyname", Args(Firewall, Address, None, None, vdom),
                  get_mkeyname(Self, Firewall, Address, vdom, sres))

GetMkey ==
    /\ NotRunning
    /\ \E vdom \in {None, Global}, data \in {Named, Unnamed} : \E sres \in KeySchemas(vdom) :
           Called("get_mkey", Args(Firewall, Address, data, None, vdom),
                  get_mkey(Self, Firewall, Address, data, vdom, sres))

PostKeys ==
    /\ NotRunning
    /\ PostWith({Named, Unnamed, Conflicting}, {None, Addr1},
                {SchemaKeyed(None), SchemaPlain(None), SchemaBad},
                {Answer(None, None), Failed(None, 500)})

\* Bodies of an answer to get: a mapping, lists whose first element is a
\* mapping (with and without a vdom of its own), an empty list, a list of
\* numbers, bytes that are not JSON.
Tagged == SetItem(OkDoc, "vdom", Root)
Bodies ==
    {Json(OkDoc), Json(PyList(<<OkDoc>>)), Json(PyList(<<Tagged, ErrDoc(404)>>)),
     Json(PyList(<<>>)), Json(PyList(<<PyInt(1)>>)), BadBody}

GetBodies ==
    /\ NotRunning
    /\ \E vdom \in {None, Root, Global}, body \in Bodies :
           Called("get", Args(Firewall, Address, None, Addr1, vdom),
                  get(Self, Firewall, Address, vdom, Addr1, None, Response(200, body, None)))

NextKeys == LoginSet \/ Logout \/ GetMkeyname \/ GetMkey \/ PostKeys \/ GetBodies

SpecKeys == Init /\ [][NextKeys]_vars

(***************************************************************************)
(* SpecHttps: the scheme chosen with https and the base URL the logins     *)
(* build from it.                                                          *)
(***************************************************************************)
NextHttps == Https \/ LoginSet \/ TokenLoginCsrf \/ Logout \/ Get

SpecHttps == Init /\ [][NextHttps]_vars

(***************************************************************************)
(* SpecLicense: check_session as a function of the authenticated flag and  *)
(* the license state.  The object starts with any of the values the check  *)
(* distinguishes, connected to an appliance when it is authenticated, and  *)
(* every operation that builds a URL is called on it.                      *)
(***************************************************************************)
Connected(l) ==
    [Connect(Construct, Fgt, LoginTimeout) EXCEPT !.logged = TRUE, !.license = l]

InitLicense ==
    \E l \in {None, Valid, Invalid} :
      \E self \in {[Construct EXCEPT !.license = l], Connected(l)} :
        /\ host = self.host
        /\ useHttps = self.useHttps
        /\ logged = self.logged
        /\ fortiversion = self.fortiversion
        /\ license = self.license
        /\ url_prefix = self.url_prefix
        /\ timeout = self.timeout
        /\ cookies = self.cookies
        /\ headers = self.headers
        /\ sent = <<>>
        /\ ret = [op |-> "__init__", args |-> NoArgs, out |-> Ret(None), calls |-> <<>>,
                  data |-> None]
        /\ auth = IF self.logged THEN "ok" ELSE "none"
        /\ csrf0 = None
        /\ move_parameters = PyDict(<<>>)
        /\ overlay = Idle

NextLicense ==
    \/ LoginSet \/ Logout \/ GetVersion
    \/ Get \/ Monitor \/ Schema \/ Download \/ Upload \/ Execute
    \/ Post \/ Put \/ Delete \/ Move \/ Set

SpecLicense == InitLicense /\ [][NextLicense]_vars

(***************************************************************************)
(* SpecMove: moves before and after a reference, called without a          *)
(* parameters argument, on a session logged in or not.                     *)
(***************************************************************************)
Before == PyStr(<<"before">>)
AfterKey == PyStr(<<"after">>)

\* The direction and the reference of the call are kept as its data.
MoveAny ==
    /\ NotRunning
    /\ \E where \in {Before, AfterKey}, reference_key \in {PyInt(1), PyInt(3)} :
           \E res \in {Answer(None, None), NotFound(None)} :
               MoveCalled(Args(<<"firewall">>, <<"policy">>, PyList(<<where, reference_key>>),
                               PyInt(2), None),
                          move(Self, <<"firewall">>, <<"policy">>, None, PyInt(2), where,
                               reference_key, move_parameters, res))

NextMove == LoginSet \/ Logout \/ MoveAny \/ Get

SpecMove == Init /\ [][NextMove]_vars

(***************************************************************************)
(* SpecUrl: the URLs get and monitor request, for every kind of identity   *)
(* (none, a name, a name with a slash, the integers 7 and 0) and of scope. *)
(***************************************************************************)
Slashed == PyStr(<<"a", "/", "b">>)
Identities == {None, Addr1, Slashed, PyInt(7), PyInt(0)}

GetUrl ==
    /\ NotRunning
    /\ \E vdom \in {None, Global, Root}, mkey \in Identities :
           Called("get", Args(Firewall, Address, None, mkey, vdom),
                  get(Self, Firewall, Address, vdom, mkey, None, Answer(vdom, None)))

MonitorUrl ==
    /\ NotRunning
    /\ \E vdom \in {None, Global, Root}, mkey \in Identities :
           Called("monitor", Args(Firewall, Address, None, mkey, vdom),
                  monitor(Self, Firewall, Address, vdom, mkey, None, Answer(vdom, None)))

NextUrl == LoginSet \/ Logout \/ GetUrl \/ MonitorUrl

SpecUrl == Init /\ [][NextUrl]_vars

(***************************************************************************)
(* SpecSoft: put, delete and set called without an identity, with a        *)
(* payload that holds the identity field, one that does not, and (put,     *)
(* delete) the default of no payload.                                      *)
(***************************************************************************)
SoftSchemas == {SchemaKeyed(None), SchemaPlain(None)}

PutSoft ==
    /\ NotRunning
    /\ PutWith({Named, Unnamed, None}, {None}, SoftSchemas, {Answer(None, None)})
DeleteSoft ==
    /\ NotRunning
    /\ DeleteWith({Named, Unnamed, None}, {None}, SoftSchemas, {Answer(None, None)})
SetSoft ==
    /\ NotRunning
    /\ SetWith({Named, Unnamed}, {None}, {None}, SoftSchemas, {Answer(None, None)},
               {Answer(None, None)})

NextSoft == LoginSet \/ Logout \/ PutSoft \/ DeleteSoft \/ SetSoft \/ Get

SpecSoft == Init /\ [][NextSoft]_vars

(***************************************************************************)
(* SpecOverlay: setoverlayconfig, one set at a time, on a session logged   *)
(* in or not.                                                              *)
(***************************************************************************)
LoginOverlay == LoginSet

NextOverlay == LoginOverlay \/ SetOverlayConfig \/ OverlaySet

SpecOverlay == Init /\ [][NextOverlay]_vars

(***************************************************************************)
(* Properties of set.                                                      *)
(***************************************************************************)
\* The requests of the last call made with a method.
Sent(method) == {i \in DOMAIN sent : sent[i].req.method = method}

\* The update of a set returned a mapping that carries an http_status.
Updated(r) ==
    /\ r.calls # <<>> /\ IsRet(r.calls[1].out)
    /\ r.calls[1].out.v.ty = "dict" /\ "http_status" \in DOMAIN r.calls[1].out.v.v
UpdateStatus(r) == r.calls[1].out.v.v["http_status"]
Creates(r) == {i \in DOMAIN r.calls : r.calls[i].verb = "create"}

Succeeded(r) ==
    /\ IsRet(r.out) /\ r.out.v.ty = "dict" /\ "status" \in DOMAIN r.out.v.v
    /\ r.out.v.v["status"] = Success

\* C2: of two successive set calls with identical path, name, identity and
\* payload, the first of which left the object on the appliance, the second
\* issues no create (the appliance does not answer its update with 404).
C2_SecondSetIssuesNoCreate ==
    [][(/\ ret.op = "set" /\ Succeeded(ret)
        /\ ret'.op = "set" /\ ret'.args = ret.args
        /\ Updated(ret') /\ UpdateStatus(ret') # PyInt(404))
       => Creates(ret') = {}]_vars

(***************************************************************************)
(* Properties of the session.                                              *)
(***************************************************************************)
\* The operations that build an endpoint URL.
UrlOps ==
    {"get", "monitor", "post", "put", "delete", "move", "execute", "set", "schema",
     "download", "upload"}

\* The answer to /logincheck and the probe's answer, of a login.
LoginAnswered == sent[1].res
Probed == Len(sent) >= 2
ProbeAnswered == sent[2].res
ProbeField(key) ==
    IF ProbeAnswered.body.ty = "json" THEN GetItem(ProbeAnswered.body.v, key)
    ELSE Raise("ValueError")

\* C3: every operation that builds an endpoint URL fails with NotLogged
\* whenever no login attempt has completed successfully since construction
\* or since the last logout.
C3_NotLoggedUntilLoginSucceeds ==
    (ret.op \in UrlOps /\ auth \in {"none", "failed"}) => IsRaise(ret.out, "NotLogged")

\* C4 as stated: whenever login returns, check_session passes and the recorded
\* version equals the version found in the probe's response.
C4_VersionIsTheProbes ==
    (ret.op = "login" /\ IsRet(ret.out)) =>
        /\ IsRet(check_session(Self))
        /\ Probed /\ IsRet(ProbeField("version"))
        /\ fortiversion = ProbeField("version").v

\* C4, amended: whenever login returns, check_session passes, and the
\* recorded version equals the version of the probe's response when that
\* response carries one; when it carries none its status is success.
C4_VersionIsTheProbesIfAny ==
    (ret.op = "login" /\ IsRet(ret.out)) =>
        /\ IsRet(check_session(Self))
        /\ IsRet(get_version(Self).out)
        /\ Probed
        /\ IF IsRet(ProbeField("version"))
           THEN get_version(Self).out.v = ProbeField("version").v
           ELSE IsRet(ProbeField("status")) /\ ProbeField("status").v = Success

\* A login that returned after a probe that carried the version.
C4_Witness ==
    /\ ret.op = "login" /\ IsRet(ret.out)
    /\ Probed /\ IsRet(ProbeField("version")) /\ ProbeField("version").v = V6
    /\ fortiversion = V6

\* C5: login fails with NotLogged whenever the answer to /logincheck does not
\* start with the marker 1, and whenever the probe's response does not
\* indicate success.
C5_LoginFailsWithoutMarkerOrSuccess ==
    (ret.op = "login"
        /\ \/ FirstChar(LoginAnswered.body) # Ret(PyStr(<<"1">>))
           \/ Probed /\ ProbeField("status") # Ret(Success))
    => IsRaise(ret.out, "NotLogged")

\* C6: after any response that sets a cookie named ccsrftoken or prefixed
\* ccsrftoken_, the next request carries X-CSRFTOKEN equal to the cookie's
\* value without its first and last characters.
C6_NextRequestCarriesCsrf ==
    \A i \in 1..Len(sent) :
        LET due == LastCsrf(csrf0, SubSeq(sent, 1, i - 1))
            h == sent[i].req.headers
        IN  due # None =>
                "X-CSRFTOKEN" \in DOMAIN h /\ h["X-CSRFTOKEN"] = Slice1(due.v)

\* C7: after logout the authenticated flag is false, the cookie store empty
\* and the license state Valid; every URL-building operation then fails
\* with NotLogged until a login or tokenlogin, and is accepted again after
\* one that succeeded.
C7_LogoutEndsTheSession ==
    /\ (ret.op = "logout" /\ IsRet(ret.out)) =>
            ~logged /\ cookies = <<>> /\ license = Valid
    /\ (ret.op \in UrlOps /\ auth = "none") => IsRaise(ret.out, "NotLogged")
    /\ (ret.op \in UrlOps /\ auth = "ok") => ~IsRaise(ret.out, "NotLogged")

\* An operation refused after a logout (the license state is Valid only
\* after one) and before any further login.
C7_Witness ==
    /\ ret.op \in UrlOps /\ auth = "none" /\ license = Valid
    /\ IsRaise(ret.out, "NotLogged")

\* C8: after logout the session no longer carries the X-CSRFTOKEN header
\* installed during the previous login.
C8_LogoutDropsCsrfHeader ==
    (ret.op = "logout" /\ IsRet(ret.out)) => "X-CSRFTOKEN" \notin DOMAIN headers

\* C9: every operation that talks to the server returns a mapping with at
\* least http_status and status, or fails with a session or license error
\* (stated of the sessions whose last login succeeded).
C9_NormalizedOrSessionError ==
    (ret.op \in UrlOps /\ auth = "ok") =>
        \/ /\ IsRet(ret.out) /\ ret.out.v.ty = "dict"
           /\ {"http_status", "status"} \subseteq DOMAIN ret.out.v.v
        \/ IsRaise(ret.out, "NotLogged")
        \/ IsRaise(ret.out, "InvalidLicense")

(***************************************************************************)
(* Properties of setoverlayconfig.                                         *)
(***************************************************************************)
\* The sets issued so far by the call of setoverlayconfig, in progress or
\* returned, when it is the last call.
OverlayCalls == IF ret.op = "setoverlayconfig" THEN ret.calls ELSE <<>>

\* C10: in every execution of setoverlayconfig every set of the scalar pass
\* (identity not forced) is issued before the first set of the table pass
\* (identity forced to the row key).
C10_ScalarPassBeforeTablePass ==
    /\ \A i, j \in DOMAIN OverlayCalls :
        (OverlayCalls[i].pass = "table" /\ OverlayCalls[j].pass = "scalar") => j < i
    /\ \A i \in DOMAIN OverlayCalls :
        (OverlayCalls[i].pass = "scalar") <=> (OverlayCalls[i].mkey = None)
    /\ overlay.pc = "run" /\ overlay.scalar # <<>> =>
        \A i \in DOMAIN OverlayCalls : OverlayCalls[i].pass = "scalar"

\* A call that returned after sets of both passes.
C10_Witness ==
    /\ ret.op = "setoverlayconfig" /\ IsRet(ret.out)
    /\ \E i, j \in DOMAIN ret.calls :
        ret.calls[i].pass = "scalar" /\ ret.calls[j].pass = "table"

\* The tree given to the last call, a call of setoverlayconfig.
Given == ret.args.data.v
Returned == ret.op = "setoverlayconfig" /\ IsRet(ret.out)

\* A set returned a mapping whose status is not success.
NonSuccess(c) ==
    /\ IsRet(c.out) /\ c.out.v.ty = "dict" /\ "status" \in DOMAIN c.out.v.v
    /\ c.out.v.v["status"] # Success

\* The set of the table pass for field f of path p of name n, if any.
RowCalls(n, p, f) ==
    {i \in DOMAIN ret.calls :
        /\ ret.calls[i].pass = "table"
        /\ ret.calls[i].path = <<Given[n].k>>
        /\ ret.calls[i].name = <<Given[n].v[p].k>>
        /\ ret.calls[i].mkey = PyStr(<<Given[n].v[p].v[f].k>>)}

\* C11: when setoverlayconfig returns, every field of the given tree whose
\* value is a nested mapping has been applied by a set with the field's key
\* as forced identity and the mapping as payload, unless an earlier row of
\* the same path returned non-success.
C11_EveryRowIsApplied ==
    Returned =>
        \A n \in DOMAIN Given : \A p \in DOMAIN Given[n].v :
            \A f \in DOMAIN Given[n].v[p].v :
                IsRow(Given[n].v[p].v[f].v) =>
                    \/ \E i \in RowCalls(n, p, f) :
                            ret.calls[i].data = Given[n].v[p].v[f].v
                    \/ \E g \in 1..(f - 1) : \E i \in RowCalls(n, p, g) :
                            NonSuccess(ret.calls[i])

\* C12: for the tree firewall/address {name, subnet} setoverlayconfig
\* completes without error and issues exactly one set, for firewall/address,
\* with both fields as payload and addr1 as identity.
C12_SeveralScalarsOneSet ==
    (ret.op = "setoverlayconfig" /\ Given = AddressTree /\ ret.out # Pending
        /\ auth = "ok") =>
        /\ ~IsRaise(ret.out, "KeyError")
        /\ Len(ret.calls) = 1
        /\ ret.calls[1].path = <<"firewall">> /\ ret.calls[1].name = <<"address">>
        /\ ret.calls[1].data = Named
        /\ \E i \in Sent("PUT") :
            sent[i].req.url.v[Len(sent[i].req.url.v)] = "addr1"

\* C13: for the tree system/global {hostname} setoverlayconfig issues
\* exactly one set, set("system", "global", {"hostname": "fw1"}) with no
\* forced identity, in the scalar pass, and none in the table pass.
C13_OneScalarOneSet ==
    (ret.op = "setoverlayconfig" /\ Given = HostnameTree) =>
        IF ret.out = Pending THEN ret.calls = <<>>
        ELSE /\ Len(ret.calls) = 1
             /\ ret.calls[1] =
                    OverlayCall("scalar", <<"system">>, <<"global">>,
                                PyDict([hostname |-> PyStr(<<"fw1">>)]), None,
                                ret.calls[1].out)

\* The call for that tree returned true.
C13_Witness ==
    /\ Returned /\ Given = HostnameTree /\ ret.out = Ret(PyBool(TRUE))
    /\ Len(ret.calls) = 1 /\ Sent("PUT") # {}

\* A set returned a mapping whose status is success.
Successful(c) ==
    /\ IsRet(c.out) /\ c.out.v.ty = "dict" /\ "status" \in DOMAIN c.out.v.v
    /\ c.out.v.v["status"] = Success

\* C19: setoverlayconfig returns true exactly when the last set it issued
\* reported status success, and false when that set reported another
\* status or when no set was issued.
C19_ResultIsTheLastSets ==
    Returned =>
        ret.out.v = PyBool(/\ ret.calls # <<>>
                           /\ Successful(ret.calls[Len(ret.calls)]))

\* true is returned although an earlier set reported non-success.
C19_Witness ==
    /\ Returned /\ ret.out.v = PyBool(TRUE)
    /\ \E i \in DOMAIN ret.calls : NonSuccess(ret.calls[i])

\* The trees of the second and the third loop of the last call.
Scalars == ret.data.v
Tables == Partition(Given).yamltreel3

\* The sets of the scalar pass for path p of name n of the second tree.
PathCalls(n, p) ==
    {i \in DOMAIN ret.calls :
        /\ ret.calls[i].pass = "scalar"
        /\ ret.calls[i].path = <<Scalars[n].k>>
        /\ ret.calls[i].name = <<Scalars[n].v[p].k>>}

\* The sets of the table pass for row f of path p of name n of the third tree.
TableCalls(n, p, f) ==
    {i \in DOMAIN ret.calls :
        /\ ret.calls[i].pass = "table"
        /\ ret.calls[i].path = <<Tables[n].k>>
        /\ ret.calls[i].name = <<Tables[n].v[p].k>>
        /\ ret.calls[i].mkey = PyStr(<<Tables[n].v[p].v[f].k>>)}

\* C20: when setoverlayconfig returns, a path of the scalar tree that holds
\* fields has been set exactly when no earlier path of the same type
\* reported non-success, and a row of the table tree exactly when no earlier
\* row of the same path did: a non-success stops the innermost loop only,
\* and one in the scalar pass does not keep the table pass from running.
C20_NonSuccessStopsInnermostLoopOnly ==
    Returned =>
        /\ \A n \in DOMAIN Scalars : \A p \in DOMAIN Scalars[n].v :
            Scalars[n].v[p].v # <<>> =>
                (PathCalls(n, p) # {} <=>
                    ~\E q \in 1..(p - 1) : \E i \in PathCalls(n, q) :
                        NonSuccess(ret.calls[i]))
        /\ \A n \in DOMAIN Tables : \A p \in DOMAIN Tables[n].v :
            \A f \in DOMAIN Tables[n].v[p].v :
                (TableCalls(n, p, f) # {} <=>
                    ~\E g \in 1..(f - 1) : \E i \in TableCalls(n, p, g) :
                        NonSuccess(ret.calls[i]))

\* A set of the scalar pass reported non-success, and a later type's and
\* the table pass's sets were made all the same.
C20_Witness ==
    /\ Returned
    /\ \E i, j, k \in DOMAIN ret.calls :
        /\ i < j /\ j < k
        /\ ret.calls[i].pass = "scalar" /\ NonSuccess(ret.calls[i])
        /\ ret.calls[j].pass = "scalar" /\ ret.calls[j].path # ret.calls[i].path
        /\ ret.calls[k].pass = "table"

\* The payload a request carries.
Payload(i) == sent[i].req.data.v
\* The answer to the schema request of the last call.
SchemaAnswer == sent[1].res
Collection == <<"https://", "fgt", "/api/v2/cmdb/", "firewall", "/", "address">>

\* m is the mapping d with field f set to val and every other field as in d.
SameBut(m, d, f, val) ==
    /\ m.ty = "dict" /\ DOMAIN m.v = DOMAIN d.v \cup {f}
    /\ m.v[f] = val
    /\ \A x \in DOMAIN d.v \ {f} : m.v[x] = d.v[x]

C15_NoKeyIsAbsenceNotFailure ==
    (auth = "ok" /\ ret.op \in {"get_mkeyname", "get_mkey"}) =>
        /\ Len(sent) = 1
        /\ SchemaAnswer = SchemaPlain(ret.args.vdom) =>
                ret.out = Ret(IF ret.op = "get_mkeyname" THEN PyBool(FALSE) ELSE None)
        /\ (ret.op = "get_mkey" /\ SchemaAnswer = SchemaKeyed(ret.args.vdom)) =>
                ret.out = IF "name" \in DOMAIN ret.args.data.v
                          THEN Ret(ret.args.data.v["name"]) ELSE Ret(None)

\* get_mkey on data without the field the schema names.
C15_Witness ==
    /\ auth = "ok" /\ ret.op = "get_mkey" /\ ret.args.data = Unnamed
    /\ sent # <<>> /\ SchemaAnswer = SchemaKeyed(ret.args.vdom) /\ ret.out = Ret(None)

\* The body of the answer to the last call's request.
Body == sent[Len(sent)].res.body

\* C17: get for scope global, answered with a JSON list whose first element
\* is a mapping, returns that element with vdom set to "global" and every
\* other field unchanged; for any other scope a JSON body is returned as
\* decoded.
C17_GlobalUnwrapsAndTags ==
    (ret.op = "get" /\ sent # <<>> /\ Body.ty = "json") =>
        IF ret.args.vdom = Global
        THEN (Body.v.ty = "list" /\ Body.v.v # <<>> /\ Body.v.v[1].ty = "dict") =>
                /\ IsRet(ret.out)
                /\ SameBut(ret.out.v, Body.v.v[1], "vdom", Global)
        ELSE ret.out = Ret(Body.v)

\* A global get whose answer's first element had a vdom of its own.
C17_Witness ==
    /\ ret.op = "get" /\ sent # <<>> /\ ret.args.vdom = Global
    /\ Body = Json(PyList(<<Tagged, ErrDoc(404)>>))
    /\ ret.out = Ret(SetItem(OkDoc, "vdom", Global))

\* C18: after https(status) the session uses https when status is 'on' and
\* http for every other status, and the base URL a login or tokenlogin
\* establishes begins with the scheme in use.
C18_HttpsOnlyWhenOn ==
    /\ ret.op = "https" => (useHttps <=> ret.args.data = PyStr(<<"on">>))
    /\ (ret.op \in {"login", "tokenlogin"} /\ url_prefix # None) =>
            url_prefix.v[1] = IF useHttps THEN "https://" ELSE "http://"

\* The operations that call check_session before anything else.
Checked == UrlOps \cup {"get_version"}

C21_NoKeyNameNoInjection ==
    (ret.op = "post" /\ Truthy(ret.args.mkey) /\ sent # <<>>
        /\ SchemaAnswer = SchemaPlain(ret.args.vdom)) =>
        \A i \in Sent("POST") : Payload(i) = ret.args.data

\* An update of the last call was answered with a body that is not JSON.
UndecodableUpdate ==
    \E i \in Sent("PUT") : sent[i].res.body.ty = "bad"

\* C22: when the answer to an update cannot be decoded, neither set nor
\* setoverlayconfig fails with the TypeError of a field access on the raw
\* response; setoverlayconfig, once done, returns false or goes on to
\* other entries.
C22_RawResultIsNonSuccess ==
    (ret.op \in {"set", "setoverlayconfig"} /\ UndecodableUpdate) =>
        /\ ~IsRaise(ret.out, "TypeError")
        /\ \A i \in DOMAIN ret.calls : ~IsRaise(ret.calls[i].out, "TypeError")

\* C23: the PUT of a move made without a parameters argument carries the
\* query parameters action=move and where=reference_key of that call, and
\* no other.
C23_MoveCarriesItsOwnDirectionOnly ==
    (ret.op = "move" /\ ret.args.data.ty = "list") =>
        \A i \in Sent("PUT") :
            /\ sent[i].req.params.ty = "dict"
            /\ DOMAIN sent[i].req.params.v = {"action", KeyOf(ret.args.data.v[1])}
            /\ sent[i].req.params.v["action"] = PyStr(<<"move">>)
            /\ sent[i].req.params.v[KeyOf(ret.args.data.v[1])] =
                    PyStr(Str(ret.args.data.v[2]))

\* The URL suffixes of an identity and of a scope, as the claim gives them.
IdentitySuffix(mkey) ==
    CASE mkey = None -> <<>>
      [] mkey = Addr1 -> <<"/", "addr1">>
      [] mkey = Slashed -> <<"/", "a", "%2F", "b">>
      [] mkey = PyInt(7) -> <<"/", "7">>
      [] mkey = PyInt(0) -> <<"/", "0">>
ScopeSuffix(vdom) ==
    IF vdom = None THEN <<>>
    ELSE IF vdom = Global THEN <<"?global=1">>
    ELSE <<"?vdom=">> \o vdom.v

\* C24: the URL of a get or a monitor is /api/v2/<cmdb|monitor>/<path>/<name>,
\* then /<escaped identity> exactly when an identity is supplied (the
\* integer 0 included), then ?global=1 for scope global, ?vdom=<scope> for
\* another scope, nothing for none.
C24_UrlHasIdentityAndScope ==
    (ret.op \in {"get", "monitor"} /\ sent # <<>>) =>
        sent[1].req.url =
            PyStr(<<"https://", "fgt",
                    IF ret.op = "get" THEN "/api/v2/cmdb/" ELSE "/api/v2/monitor/">>
                  \o ret.args.path \o <<"/">> \o ret.args.name
                  \o IdentitySuffix(ret.args.mkey) \o ScopeSuffix(ret.args.vdom))

\* The payload of the last call does not hold the identity field (name).
LacksIdentity ==
    ret.args.data = None
        \/ (ret.args.data.ty = "dict" /\ "name" \notin DOMAIN ret.args.data.v)

\* C25: on an authenticated session put, delete and set called without an
\* identity and with a payload that lacks the identity field, or with no
\* payload, do not raise and send their request to the collection URL.
C25_MissingIdentityIsSoft ==
    (auth = "ok" /\ ret.op \in {"put", "delete", "set"} /\ ret.args.mkey = None
        /\ LacksIdentity) =>
        /\ IsRet(ret.out)
        /\ \E i \in DOMAIN sent :
            /\ sent[i].req.method = (IF ret.op = "delete" THEN "DELETE" ELSE "PUT")
            /\ sent[i].req.url = PyStr(Collection)

\* C26: when setoverlayconfig has returned, the tree the caller gave
\* (yamltree, the object the first loop works on) is what it was before
\* the call.
C26_GivenTreeIsLeftAlone ==
    Returned => ret.data = ret.args.data

\* C27: after a login or a tokenlogin that failed, the authenticated flag
\* is false and check_session raises NotLogged.
C27_FailedLoginIsNotLogged ==
    (ret.op \in {"login", "tokenlogin"} /\ ~IsRet(ret.out)) =>
        /\ ~logged
        /\ IsRaise(check_session(Self), "NotLogged")

\* C28: in every state the operations reach, the recorded license state is
\* the initial None or Valid, never Invalid, and no call has failed for an
\* invalid license, in check_session or in formatresponse.
C28_LicenseIsNeverInvalid ==
    /\ license \in {None, Valid}
    /\ ~IsRaise(ret.out, "InvalidLicense")
    /\ ~IsRaise(ret.out, "Exception")

\* The appliance reported an invalid license, before and after the update.
C28_Witness ==
    /\ ret.op = "license" /\ Len(sent) = 3
    /\ sent[1].res = LicenseInvalid(ret.args.vdom)
    /\ sent[3].res = LicenseInvalid(ret.args.vdom)
    /\ license # Invalid

====
